---- MODULE Spec2Model ----
(***************************************************************************)
(* A model of the equation visualiser: the web form's render job           *)
(* (app.py: run_manim and the "Render 2D" handler), the renderer child     *)
(* process as far as the repository's own code runs in it                  *)
(* (equation_viz.py: _read_range), the desktop form (gui_volume.py), the   *)
(* volume scene's setup (rotating_volume_core.py), the symbolic helper     *)
(* bridge (wolfram_bridge.py) and the numeric range estimate               *)
(* (estimate_ymax).                                                        *)
(*                                                                         *)
(* Numbers of the web form are kept in tenths (-6.0 is -60), so that the   *)
(* defaults -3.5 and 3.5 are integers.  Strings that cross the process     *)
(* boundary are sequences of one-character strings.                        *)
(***************************************************************************)
EXTENDS Integers, Sequences, FiniteSets, TLC

\* ------------------------------------------------------------------ bounds

\* Render jobs submitted in one behaviour (over all browser sessions).
MaxJobs == 2

\* ------------------------------------------------------------- text helpers

DigitChars == <<"0", "1", "2", "3", "4", "5", "6", "7", "8", "9">>

IsDigit(c) == \E d \in 1..10 : DigitChars[d] = c

DigitVal(c) == (CHOOSE d \in 1..10 : DigitChars[d] = c) - 1

Abs(n) == IF n < 0 THEN -n ELSE n

RECURSIVE Digits(_)
\* The decimal digits of a natural number.
Digits(n) ==
    IF n < 10 THEN <<DigitChars[n + 1]>>
    ELSE Digits(n \div 10) \o <<DigitChars[(n % 10) + 1]>>

RECURSIVE DigitsValue(_)
\* The natural number a non-empty sequence of digits denotes.
DigitsValue(s) ==
    IF Len(s) = 1 THEN DigitVal(s[1])
    ELSE 10 * DigitsValue(SubSeq(s, 1, Len(s) - 1)) + DigitVal(s[Len(s)])

AllDigits(s) == \A i \in 1..Len(s) : IsDigit(s[i])

\* A Python number of the web form: an int or a float, its value in tenths.
PyFloat(t) == [ty |-> "float", t |-> t]
PyInt(n) == [ty |-> "int", t |-> 10 * n]

\* str() of a Python number, as an f-string field formats it: "-6.0", "-4".
py_str(n) ==
    LET sign == IF n.t < 0 THEN <<"-">> ELSE <<>>
        whole == Digits(Abs(n.t) \div 10)
    IN  IF n.ty = "int" THEN sign \o whole
        ELSE sign \o whole \o <<".">> \o <<DigitChars[(Abs(n.t) % 10) + 1]>>

\* The index of the first c in s, 0 when there is none.
IndexOf(s, c) ==
    IF \E i \in 1..Len(s) : s[i] = c
    THEN CHOOSE i \in 1..Len(s) : s[i] = c /\ \A j \in 1..(i - 1) : s[j] # c
    ELSE 0

\* float(s) for the decimal literals the model's strings hold: an optional
\* sign, digits, and an optional point with at most one digit after it.
\* Anything else raises ValueError (ok = FALSE).
py_float(s) ==
    LET neg == Len(s) > 0 /\ s[1] = "-"
        body == IF neg THEN Tail(s) ELSE s
        dot == IndexOf(body, ".")
        whole == IF dot = 0 THEN body ELSE SubSeq(body, 1, dot - 1)
        frac == IF dot = 0 THEN <<>> ELSE SubSeq(body, dot + 1, Len(body))
        good == /\ Len(whole) + Len(frac) > 0
                /\ AllDigits(whole) /\ AllDigits(frac)
                /\ Len(frac) <= 1
        mag == (IF Len(whole) = 0 THEN 0 ELSE 10 * DigitsValue(whole))
               + (IF Len(frac) = 0 THEN 0 ELSE DigitVal(frac[1]))
    IN  IF good THEN [ok |-> TRUE, t |-> IF neg THEN -mag ELSE mag]
        ELSE [ok |-> FALSE, t |-> 0]

RECURSIVE py_split(_, _)
\* s.split(c): the pieces between the separators, empty pieces included.
py_split(s, c) ==
    LET i == IndexOf(s, c)
    IN  IF i = 0 THEN <<s>>
        ELSE <<SubSeq(s, 1, i - 1)>> \o py_split(SubSeq(s, i + 1, Len(s)), c)

RECURSIVE py_strip(_)
\* s.strip(): blanks removed at both ends.
py_strip(s) ==
    IF Len(s) > 0 /\ s[1] = " " THEN py_strip(Tail(s))
    ELSE IF Len(s) > 0 /\ s[Len(s)] = " " THEN py_strip(SubSeq(s, 1, Len(s) - 1))
    ELSE s

RECURSIVE NonEmpty(_)
\* [p for p in parts if p]
NonEmpty(parts) ==
    IF parts = <<>> THEN <<>>
    ELSE (IF Head(parts) = <<>> THEN <<>> ELSE <<Head(parts)>>) \o NonEmpty(Tail(parts))

\* ------------------------------------------------- equation_viz._read_range

Min2(a, b) == IF a < b THEN a ELSE b

RangeOK(lo, hi, step) == [ok |-> TRUE, exc |-> "", min |-> lo, max |-> hi, step |-> step]

RangeRaises(exc) == [ok |-> FALSE, exc |-> exc, min |-> 0, max |-> 0, step |-> 0]

\* The defaults of XR, YR and ZR, in tenths.
DefaultXR == <<-60, 60, 10>>
DefaultYR == <<-40, 40, 10>>
DefaultZR == <<-35, 35, 10>>

\* _read_range(name, default_tuple) in the environment `environ`: the
\* (min, max, step) tuple, or the exception the function raises.  An unset
\* variable and an empty one read the same (os.getenv(name, "")).
_read_range(environ, name, default_tuple) ==
    LET s == py_strip(environ[name])
        parts == NonEmpty(py_split(s, ","))
        head == SubSeq(parts, 1, Min2(2, Len(parts)))
        vals == [i \in 1..Len(head) |-> py_float(head[i])]
        step == IF Len(parts) > 2 THEN py_float(parts[3])
                ELSE [ok |-> TRUE, t |-> default_tuple[3]]
    IN  IF s = <<>>
        THEN RangeOK(default_tuple[1], default_tuple[2], default_tuple[3])
        ELSE IF \E i \in 1..Len(vals) : ~vals[i].ok THEN RangeRaises("ValueError")
        ELSE IF ~step.ok THEN RangeRaises("ValueError")
        ELSE IF Len(vals) < 2 THEN RangeRaises("IndexError")
        ELSE RangeOK(vals[1].t, vals[2].t, step.t)

\* ------------------------------------------------------------ expressions

\* The expression texts a user types, here a small catalogue.
ExprPlain == "x"
ExprNaN == "x + 0*log(x)"
ExprRaise == "x if x > 0 else 1/0"
ExprImport == "__import__('os')"
ExprBroken == "sin("
\* The scene's own default, Rotating3DAxis.expr.
ExprDefault == "exp(x)"

Exprs == {ExprPlain, ExprNaN, ExprRaise, ExprImport, ExprBroken}

\* Whether the text is a Python expression at all.
WellFormed(e) == e # ExprBroken

\* The names the expression refers to.
Names(e) ==
    CASE e = ExprPlain -> {"x"}
      [] e = ExprNaN -> {"x", "log"}
      [] e = ExprRaise -> {"x"}
      [] e = ExprImport -> {"__import__"}
      [] e = ExprDefault -> {"x", "exp"}
      [] OTHER -> {}

\* The names safe_eval_expr makes visible (the public names of math and
\* numpy, pi, e, tau and x), as far as the catalogue needs them.  Builtins
\* are emptied, so __import__ is not among them.
AllowedNames == {"x", "pi", "e", "tau", "log", "sin", "cos", "exp", "sqrt", "nan"}

\* An expression the allow-list accepts.
Acceptable(e) == WellFormed(e) /\ Names(e) \subseteq AllowedNames

\* ------------------------------------------------------------------ floats

\* A float of the volume scene: a finite number (v counts units of a grid
\* that each use fixes: halves for the form's limits, sample steps for
\* estimate_ymax), one of the two large values 1e300 (v = 2) and its half
\* 5e299 (v = 1), at which adding 1.0 changes nothing, plus infinity ("inf")
\* or not-a-number ("nan").
Fin(n) == [t |-> "fin", v |-> n]
Big == [t |-> "big", v |-> 2]
HalfBig == [t |-> "big", v |-> 1]
Inf == [t |-> "inf", v |-> 0]
NaN == [t |-> "nan", v |-> 0]
\* A positive finite float that is not on the grid, such as exp(1); the
\* model never compares it.
Inexact == [t |-> "inexact", v |-> 0]

IsNaN(x) == x.t = "nan"

\* x == y, x > y and x < y of IEEE floats: every comparison with nan is false.
\* The model has no negative large or infinite values.
FEq(x, y) == ~IsNaN(x) /\ ~IsNaN(y) /\ x = y

FRank(x) == CASE x.t = "fin" -> 0 [] x.t = "big" -> 1 [] OTHER -> 2

FGt(x, y) ==
    /\ ~IsNaN(x) /\ ~IsNaN(y)
    /\ \/ FRank(x) > FRank(y)
       \/ FRank(x) = FRank(y) /\ x.v > y.v

FLt(x, y) == FGt(y, x)

\* abs(x)
FAbs(x) == IF x.t = "fin" THEN Fin(Abs(x.v)) ELSE x

\* --------------------------------------- rotating_volume_core.safe_eval_expr

Value(x) == [ok |-> TRUE, exc |-> "", val |-> x]

Raises(exc) == [ok |-> FALSE, exc |-> exc, val |-> NaN]

\* safe_eval_expr(expr, x=x): float(eval(expr, {"__builtins__": {}}, allowed)).
\* log is numpy's (line 12 lets numpy's names replace math's), which answers
\* nan or -inf with a warning where math.log would raise; 0 times either is
\* nan.
safe_eval_expr(expr, x) ==
    IF ~WellFormed(expr) THEN Raises("SyntaxError")
    ELSE IF ~(Names(expr) \subseteq AllowedNames) THEN Raises("NameError")
    ELSE CASE expr = ExprPlain -> Value(x)
           [] expr = ExprNaN ->
                IF x.t = "big" \/ (x.t = "fin" /\ x.v > 0) THEN Value(x)
                ELSE Value(NaN)
           [] expr = ExprRaise ->
                IF FGt(x, Fin(0)) THEN Value(x) ELSE Raises("ZeroDivisionError")
           [] expr = ExprDefault ->
                CASE x.t = "fin" -> Value(Inexact)
                  [] x.t = "nan" -> Value(NaN)
                  [] OTHER -> Value(Inf)

\* ----------------------------------------- rotating_volume_core.estimate_ymax

\* The number of sample points (line 18).
NumSamples == 256

\* np.linspace(a, b, NumSamples)[i], for i from 0, as a multiple of the
\* sample step 1/(NumSamples - 1); a and b are whole numbers.
Linspace(a, b, i) == Fin(a * (NumSamples - 1) + i * (b - a))

\* 1.0 on the sample grid.
One == Fin(NumSamples - 1)

\* One pass of the loop of lines 20-24: the value appended to vals.
SampleValue(expr, xv) ==
    LET r == safe_eval_expr(expr, xv)
    IN  IF r.ok THEN FAbs(r.val) ELSE Fin(0)

\* Python's max(x, y): y replaces x only when y > x.
PyMax2(x, y) == IF FGt(y, x) THEN y ELSE x

RECURSIVE PyMaxOver(_, _, _, _)
\* The running maximum after vals[lo..hi] have been compared, in order, with
\* `best`.  The range is halved, and the left half's result looked at before
\* the right half starts, only to keep the evaluation shallow.
PyMaxOver(best, vals, lo, hi) ==
    IF lo > hi THEN best
    ELSE IF lo = hi THEN PyMax2(best, vals[lo])
    ELSE LET mid == (lo + hi) \div 2
             left == PyMaxOver(best, vals, lo, mid)
         IN  IF left.t = "nan" THEN PyMaxOver(NaN, vals, mid + 1, hi)
             ELSE PyMaxOver(left, vals, mid + 1, hi)

\* max(vals) of a non-empty list: Python keeps the first item and replaces it
\* by each later one that compares greater.
PyMaxList(vals) == PyMaxOver(vals[1], vals, 2, Len(vals))

\* x * 1.15, in hundredths of the sample grid.
Headroom(x) == IF x.t = "fin" THEN Fin(x.v * 115) ELSE x

\* Lines 25-26.
estimate_result(vals) ==
    LET ymax == IF Len(vals) > 0 THEN PyMaxList(vals) ELSE One
    IN  Headroom(PyMax2(One, ymax))

\* ------------------------------------------------------- the form's limits

\* What a user types as a limit.  The form's floats count halves: 2 is Fin(4).
LimitTexts == {"", "-1", "2", "1e300", "1e999-1e999"}

\* float(eval(text, {"__builtins__": {}}, allowed)) for the catalogue's
\* texts: the float, or the exception.  1e999 is read as infinity, and
\* infinity minus infinity is not a number.
eval_limit(text) ==
    CASE text = "-1" -> Value(Fin(-2))
      [] text = "2" -> Value(Fin(4))
      [] text = "1e300" -> Value(Big)
      [] text = "1e999-1e999" -> Value(NaN)
      [] OTHER -> Raises("SyntaxError")

\* gui_volume.parse_limit(text).
parse_limit(text) ==
    IF text = "" THEN Raises("ValueError")
    ELSE IF eval_limit(text).ok THEN eval_limit(text)
    ELSE Raises("ValueError")

\* parse_limit(s, default_val) inside _prompt_params: the default stands in
\* for an empty or unreadable answer.
prompt_parse_limit(text, default_val) ==
    IF text = "" THEN default_val
    ELSE IF eval_limit(text).ok THEN eval_limit(text).val
    ELSE default_val

\* x + 1.0 on the grid of halves; a large value absorbs the 1.0.
PlusOne(x) == IF x.t = "fin" THEN Fin(x.v + 2) ELSE x

\* 0.5 * (a + b) on the grid of halves.
Midpoint(a, b) ==
    CASE IsNaN(a) \/ IsNaN(b) -> NaN
      [] a.t = "inf" \/ b.t = "inf" -> Inf
      [] a.t = "big" /\ b.t = "big" -> Big
      [] a.t = "big" \/ b.t = "big" -> HalfBig
      [] OTHER -> Fin((a.v + b.v) \div 2)

\* render_scene, lines 40-43: the bounds as they go on.
render_scene_bounds(a, b) ==
    LET b1 == IF FEq(a, b) THEN PlusOne(a) ELSE b
    IN  IF FGt(a, b1) THEN <<b1, a>> ELSE <<a, b1>>

\* _prompt_params, lines 51-52.
prompt_params_bounds(a, b) ==
    LET b1 == IF FEq(a, b) THEN PlusOne(b) ELSE b
    IN  IF FGt(a, b1) THEN <<b1, a>> ELSE <<a, b1>>

\* quick_check_expr(expr, a, b): the exception it raises, "" for none.
quick_check_expr(expr, a, b) ==
    IF safe_eval_expr(expr, Midpoint(a, b)).ok THEN "" ELSE "ValueError"

\* _prompt_params(default_expr, default_a, default_b) with the answers
\* typed: (expr, a, b).
_prompt_params(answers, default_expr, default_a, default_b) ==
    LET expr == IF answers.expr = "" THEN default_expr ELSE answers.expr
        ab == prompt_params_bounds(prompt_parse_limit(answers.a, default_a),
                                   prompt_parse_limit(answers.b, default_b))
        checked == IF safe_eval_expr(expr, Midpoint(ab[1], ab[2])).ok THEN expr
                   ELSE default_expr
    IN  [expr |-> checked, a |-> ab[1], b |-> ab[2]]

\* --------------------------------------- wolfram_bridge.compute_with_wolfram

\* A field of the helper's JSON object, or its absence.
Absent == [t |-> "absent", n |-> 0, s |-> ""]
FNum(n) == [t |-> "num", n |-> n, s |-> ""]
FStr(str) == [t |-> "str", n |-> 0, s |-> str]

\* A JSON value as json.loads gives it, or None: n is a number's value, or
\* the length of a list, or the number of a dict's keys.
JNone == [t |-> "None", n |-> 0, yMaxNumeric |-> Absent, integralTeX |-> Absent]
JDict(y, tex) ==
    [t |-> "dict",
     n |-> (IF y = Absent THEN 0 ELSE 1) + (IF tex = Absent THEN 0 ELSE 1),
     yMaxNumeric |-> y, integralTeX |-> tex]
JList(n) == [t |-> "list", n |-> n, yMaxNumeric |-> Absent, integralTeX |-> Absent]
JNum(n) == [t |-> "num", n |-> n, yMaxNumeric |-> Absent, integralTeX |-> Absent]

\* What the helper may print.
HelperStdouts ==
    {"", "{}", "{\"yMaxNumeric\": 3}", "{\"yMaxNumeric\": \"3\"}",
     "{\"yMaxNumeric\": 3, \"integralTeX\": \"\\pi e^4\"}",
     "{\"integralTeX\": \"\"}", "[]", "[1]", "5", "null", "Syntax::sntxf"}

\* json.loads(text) for these texts.
json_loads(text) ==
    CASE text = "{}" -> [ok |-> TRUE, val |-> JDict(Absent, Absent)]
      [] text = "{\"yMaxNumeric\": 3}" -> [ok |-> TRUE, val |-> JDict(FNum(3), Absent)]
      [] text = "{\"yMaxNumeric\": \"3\"}" ->
            [ok |-> TRUE, val |-> JDict(FStr("3"), Absent)]
      [] text = "{\"yMaxNumeric\": 3, \"integralTeX\": \"\\pi e^4\"}" ->
            [ok |-> TRUE, val |-> JDict(FNum(3), FStr("\\pi e^4"))]
      [] text = "{\"integralTeX\": \"\"}" -> [ok |-> TRUE, val |-> JDict(Absent, FStr(""))]
      [] text = "[]" -> [ok |-> TRUE, val |-> JList(0)]
      [] text = "[1]" -> [ok |-> TRUE, val |-> JList(1)]
      [] text = "5" -> [ok |-> TRUE, val |-> JNum(5)]
      [] text = "null" -> [ok |-> TRUE, val |-> JNone]
      [] OTHER -> [ok |-> FALSE, val |-> JNone]

\* How the helper stands and what it does when run.
HelperCases ==
    {[use |-> FALSE, installed |-> TRUE, rc |-> 0, stdout |-> ""],
     [use |-> TRUE, installed |-> FALSE, rc |-> 0, stdout |-> ""],
     [use |-> TRUE, installed |-> TRUE, rc |-> 1, stdout |-> ""]}
    \cup {[use |-> TRUE, installed |-> TRUE, rc |-> 0, stdout |-> o] : o \in HelperStdouts}

\* compute_with_wolfram(expr, a, b) when the helper stands as h.
compute_with_wolfram(h) ==
    IF ~h.use THEN JNone
    ELSE IF ~h.installed THEN JNone
    ELSE IF h.rc # 0 THEN JNone
    ELSE LET r == json_loads(IF h.stdout = "" THEN "{}" ELSE h.stdout)
         IN  IF r.ok THEN r.val ELSE JNone

\* Python's truth value of w.
Truthy(w) == w.t # "None" /\ w.n # 0

\* ------------------------------------------------------------------ state

VARIABLES
    open,      \* the browser sessions that are open
    form,      \* per session: the web form's widget values
    pc,        \* per session: where its script run is in run_manim
    job,       \* per session: the job run_manim is working on
    env,       \* per session: the environment run_manim built for the child
    existed,   \* per session: what out_path.exists() answered
    proc,      \* per session: the renderer child process
    res,       \* per session: the CompletedProcess of subprocess.run
    found,     \* per session: the result of media_root.rglob
    outcome,   \* per session: how run_manim ended and what the page shows
    target,    \* the file at out_path: 0 when absent, else the job that rendered it
    media,     \* per quality directory: the file of that name under media/
    nextId     \* jobs submitted so far

webVars == <<open, form, pc, job, env, existed, proc, res, found, outcome,
             target, media, nextId>>

VARIABLES
    est        \* a caller of estimate_ymax: its arguments, the loop, the results

estVars == <<est>>

VARIABLES
    host,        \* what runs the volume scene: the desktop form or the command line
    typed,       \* the texts typed for f(x), a and b (form fields, or prompt answers)
    ui,          \* the state of the Render button and the inputs
    status,      \* status_var
    dialog,      \* the title of the last message box, "" for none
    skip_prompt, \* os.environ["SKIP_PROMPT"]
    wk,          \* per worker thread: where it is in render_scene, and its scene
    started      \* worker threads started so far

deskVars == <<host, typed, ui, status, dialog, skip_prompt, wk, started>>

vars == <<webVars, estVars, deskVars>>

Sessions == {1, 2}

\* The sidebar's quality choices that the model offers, and quality[0].
Qualities == {"l (fast)", "h"}

QualityCode(quality) == IF quality = "l (fast)" THEN "l" ELSE "h"

\* Manim saves into media/videos/<module>/<quality>/ (app.py, line 98).
QualityDirs == {"480p15", "1080p60"}

QualityDir(q) == IF q = "l" THEN "480p15" ELSE "1080p60"

\* What the number inputs "x min" and "x max" hold, in tenths.
RangeInputs == {-10, 10}

WebExprs == {ExprPlain, ExprImport, ExprBroken}

Forms == [f2d : WebExprs, xr_min : RangeInputs, xr_max : RangeInputs,
          quality : Qualities, use_latex : {TRUE}]

\* The form as the page first shows it, but for the smaller default range.
DefaultForm == [f2d |-> ExprPlain, xr_min |-> -10, xr_max |-> 10,
                quality |-> "l (fast)", use_latex |-> TRUE]

NoJob == [id |-> 0, scene |-> "", func2d |-> "", q |-> ""]

NoEnv == [FUNC2D |-> "", XRANGE |-> <<>>, YRANGE |-> <<>>, ZRANGE |-> <<>>,
          USE_LATEX |-> <<>>, ALLOW_INPUT |-> <<>>]

NoRange == RangeRaises("")

NoProc == [st |-> "none", XR |-> NoRange, YR |-> NoRange, ZR |-> NoRange,
           wrote |-> FALSE]

NoRes == [returncode |-> 0, stdout |-> "", stderr |-> ""]

\* run_manim's local `found`: not yet assigned, or the matches rglob listed.
NotSearched == [searched |-> FALSE, dirs |-> {}]

\* How run_manim ended (it returned out_path, or raised), the message of the
\* exception, what the page then shows, and the file that was at out_path
\* when run_manim ended (0: none).
NoOutcome == [kind |-> "none", msg |-> <<>>, shown |-> "", artifact |-> 0]

\* What the child may leave on its standard streams.
Captured == {[stdout |-> "", stderr |-> ""],
             [stdout |-> "", stderr |-> "Traceback"],
             [stdout |-> "INFO", stderr |-> "Traceback"]}

InitWith(sessions, forms) ==
    /\ open = sessions
    /\ form \in [Sessions -> forms]
    /\ \A s \in Sessions \ sessions : form[s] = DefaultForm
    /\ pc = [s \in Sessions |-> "idle"]
    /\ job = [s \in Sessions |-> NoJob]
    /\ env = [s \in Sessions |-> NoEnv]
    /\ existed = [s \in Sessions |-> FALSE]
    /\ proc = [s \in Sessions |-> NoProc]
    /\ res = [s \in Sessions |-> NoRes]
    /\ found = [s \in Sessions |-> NotSearched]
    /\ outcome = [s \in Sessions |-> NoOutcome]
    /\ target = 0
    /\ media = [d \in QualityDirs |-> 0]
    /\ nextId = 0

\* ---------------------------------------------------------- app.run_manim

\* The environment of lines 66-75.
run_manim_env(func2d, xr, yr, zr, use_latex_flag) ==
    [FUNC2D |-> func2d,
     XRANGE |-> py_str(xr[1]) \o <<",">> \o py_str(xr[2]),
     YRANGE |-> py_str(yr[1]) \o <<",">> \o py_str(yr[2]),
     ZRANGE |-> py_str(zr[1]) \o <<",">> \o py_str(zr[2]),
     USE_LATEX |-> IF use_latex_flag THEN <<"1">> ELSE <<"0">>,
     ALLOW_INPUT |-> <<"0">>]

\* "Render 2D" is pressed: the handler calls run_manim, which builds the
\* child's environment and out_path (lines 132-139 and 66-77).
Render2D(s) ==
    /\ s \in open
    /\ pc[s] \in {"idle", "done"}
    /\ nextId < MaxJobs
    /\ nextId' = nextId + 1
    /\ job' = [job EXCEPT ![s] = [id |-> nextId + 1, scene |-> "Graph2DScene",
                                  func2d |-> form[s].f2d,
                                  q |-> QualityCode(form[s].quality)]]
    /\ env' = [env EXCEPT ![s] =
                 run_manim_env(form[s].f2d,
                               <<PyFloat(form[s].xr_min), PyFloat(form[s].xr_max)>>,
                               <<PyInt(-4), PyInt(4)>>,
                               <<PyFloat(-35), PyFloat(35)>>,
                               form[s].use_latex)]
    /\ existed' = [existed EXCEPT ![s] = FALSE]
    /\ proc' = [proc EXCEPT ![s] = NoProc]
    /\ res' = [res EXCEPT ![s] = NoRes]
    /\ found' = [found EXCEPT ![s] = NotSearched]
    /\ outcome' = [outcome EXCEPT ![s] = NoOutcome]
    /\ pc' = [pc EXCEPT ![s] = "clean"]
    /\ UNCHANGED <<open, form, target, media>>

\* run_manim without lines 79-80: the file at out_path is left where it is.
run_manim_clean_keep(s) ==
    /\ pc[s] = "clean"
    /\ existed' = [existed EXCEPT ![s] = (target # 0)]
    /\ pc' = [pc EXCEPT ![s] = "spawn"]
    /\ UNCHANGED <<open, form, job, env, proc, res, found, outcome, target, media, nextId>>

\* Lines 78-80: "Ensure clean output file".
run_manim_clean(s) ==
    /\ pc[s] = "clean"
    /\ existed' = [existed EXCEPT ![s] = (target # 0)]
    /\ target' = 0
    /\ pc' = [pc EXCEPT ![s] = "spawn"]
    /\ UNCHANGED <<open, form, job, env, proc, res, found, outcome, media, nextId>>

\* Line 92: subprocess.run starts the child and waits for it, with no timeout.
run_manim_spawn(s) ==
    /\ pc[s] = "spawn"
    /\ proc' = [proc EXCEPT ![s].st = "import"]
    /\ pc' = [pc EXCEPT ![s] = "wait"]
    /\ UNCHANGED <<open, form, job, env, existed, res, found, outcome,
                   target, media, nextId>>

\* The text of the RuntimeError of line 95, piece by piece.
FailureMessage(r) ==
    <<"Manim failed:\nSTDOUT:\n", r.stdout, "\n\nSTDERR:\n", r.stderr>>

\* The quality directories that hold a file of the output's name.
Matches == {d \in QualityDirs : media[d] # 0}

\* Lines 94-105 once the child has exited, and the handler's lines 140-144.
\* rglob lists the matches in directory order, which is not specified, so
\* found[0] is any of them.
run_manim_collect(s) ==
    /\ pc[s] = "wait"
    /\ proc[s].st = "exited"
    /\ pc' = [pc EXCEPT ![s] = "done"]
    /\ IF res[s].returncode # 0
       THEN /\ outcome' = [outcome EXCEPT ![s] =
                             [kind |-> "RuntimeError",
                              msg |-> FailureMessage(res[s]),
                              shown |-> "error",
                              artifact |-> target]]
            /\ UNCHANGED <<found, target, media>>
       ELSE /\ found' = [found EXCEPT ![s] = [searched |-> TRUE, dirs |-> Matches]]
            /\ IF Matches = {}
               THEN UNCHANGED <<target, media>>
               ELSE \E d \in Matches :
                       /\ target' = media[d]
                       /\ media' = [media EXCEPT ![d] = 0]
            /\ outcome' = [outcome EXCEPT ![s] =
                             [kind |-> "returned", msg |-> <<>>,
                              shown |-> "Rendered!", artifact |-> target']]
    /\ UNCHANGED <<open, form, job, env, existed, proc, res, nextId>>

\* ------------------------------------------------------ the renderer child

\* The child imports equation_viz.py: lines 86-88 read the three ranges.
child_import(s) ==
    /\ proc[s].st = "import"
    /\ proc' = [proc EXCEPT ![s] =
                  [st |-> "running",
                   XR |-> _read_range(env[s], "XRANGE", DefaultXR),
                   YR |-> _read_range(env[s], "YRANGE", DefaultYR),
                   ZR |-> _read_range(env[s], "ZRANGE", DefaultZR),
                   wrote |-> FALSE]]
    /\ UNCHANGED <<open, form, pc, job, env, existed, res, found, outcome,
                   target, media, nextId>>

ImportFailed(s) == ~proc[s].XR.ok \/ ~proc[s].YR.ok \/ ~proc[s].ZR.ok

\* The renderer writes the movie under media/ with the name "-o" gave.
child_write(s) ==
    /\ proc[s].st = "running"
    /\ ~ImportFailed(s)
    /\ ~proc[s].wrote
    /\ media' = [media EXCEPT ![QualityDir(job[s].q)] = job[s].id]
    /\ proc' = [proc EXCEPT ![s].wrote = TRUE]
    /\ UNCHANGED <<open, form, pc, job, env, existed, res, found, outcome,
                   target, nextId>>

\* The child exits; subprocess.run returns its status and captured streams.
\* An exception at import ends the child with status 1 and a traceback.
child_exit(s) ==
    /\ proc[s].st = "running"
    /\ \E rc \in {0, 1}, c \in Captured :
          /\ ImportFailed(s) => (rc = 1 /\ c.stderr = "Traceback")
          /\ res' = [res EXCEPT ![s] =
                       [returncode |-> rc, stdout |-> c.stdout, stderr |-> c.stderr]]
    /\ proc' = [proc EXCEPT ![s].st = "exited"]
    /\ UNCHANGED <<open, form, pc, job, env, existed, found, outcome,
                   target, media, nextId>>

\* The child stops making progress and never exits.
child_hang(s) ==
    /\ proc[s].st = "running"
    /\ proc' = [proc EXCEPT ![s].st = "hung"]
    /\ UNCHANGED <<open, form, pc, job, env, existed, res, found, outcome,
                   target, media, nextId>>

\* The user picks another quality in the sidebar; the script reruns with no
\* button pressed, so the page shows no result.
select_quality(s) ==
    /\ s \in open
    /\ pc[s] \in {"idle", "done"}
    /\ \E quality \in Qualities \ {form[s].quality} :
          form' = [form EXCEPT ![s].quality = quality]
    /\ pc' = [pc EXCEPT ![s] = "idle"]
    /\ outcome' = [outcome EXCEPT ![s] = NoOutcome]
    /\ UNCHANGED <<open, job, env, existed, proc, res, found, target, media, nextId>>

\* ---------------------------------------------------------- specifications

\* No caller of estimate_ymax.
NoEst == [expr |-> "", a |-> 0, b |-> 0, call |-> 0, vals |-> <<>>, results |-> <<>>]

\* ---------------------------------------------------------- the volume scene

\* Clicks on Render that start a worker thread in one behaviour.
MaxRenders == 2

Workers == 1..MaxRenders

NoHelper == [use |-> FALSE, installed |-> FALSE, rc |-> 0, stdout |-> ""]

\* A thread that does not run: not yet started, or ended.
NoWorker == [pc |-> "none", expr |-> "", a |-> NaN, b |-> NaN, helper |-> NoHelper,
             w |-> JNone, y_max |-> "", integral |-> "", exc |-> ""]

DeskExprs == {ExprPlain, ExprRaise, ExprImport, ExprBroken}

Typed == [expr : DeskExprs, a : LimitTexts, b : LimitTexts]

InitDeskWith(hosts, texts) ==
    /\ host \in hosts
    /\ typed \in texts
    /\ ui = "normal"
    /\ status = "Ready"
    /\ dialog = ""
    /\ skip_prompt = "0"
    /\ wk = [t \in Workers |-> NoWorker]
    /\ started = 0

\* Neither the form nor the command line is in use.
DeskIdle == InitDeskWith({"none"}, {[expr |-> "", a |-> "", b |-> ""]})

Init == InitWith({1}, Forms) /\ est = NoEst /\ DeskIdle

Next ==
    /\ UNCHANGED <<estVars, deskVars>>
    /\ \E s \in Sessions :
        \/ Render2D(s)
        \/ run_manim_clean(s)
        \/ run_manim_spawn(s)
        \/ child_import(s)
        \/ child_write(s)
        \/ child_exit(s)
        \/ child_hang(s)
        \/ run_manim_collect(s)
        \/ select_quality(s)

\* One browser session, its jobs one after another.
Spec == Init /\ [][Next]_vars

\* The same, where a child that runs and can exit does exit, and run_manim's
\* thread then takes its next step: nothing but a child that hangs can keep
\* a job whose child is running from ending.
SpecLive ==
    /\ Spec
    /\ \A s \in Sessions :
          /\ WF_vars(child_exit(s) /\ UNCHANGED <<estVars, deskVars>>)
          /\ WF_vars(run_manim_collect(s) /\ UNCHANGED <<estVars, deskVars>>)

\* Two browser sessions with the form as first shown; both jobs go to the
\* same out_path, since it depends on the scene alone (line 77).
InitConc == InitWith({1, 2}, {DefaultForm}) /\ est = NoEst /\ DeskIdle

SpecConc == InitConc /\ [][Next]_vars

\* -------------------------------------------------- estimate_ymax, called

\* The whole-number bounds estimate_ymax is called with.
EstBounds == {-1, 0, 2}

WebIdle == InitWith({}, {DefaultForm})

InitEst ==
    /\ WebIdle
    /\ DeskIdle
    /\ \E e \in Exprs, a \in EstBounds, b \in EstBounds :
          est = [expr |-> e, a |-> a, b |-> b, call |-> 1, vals |-> <<>>,
                 results |-> <<>>]

\* One pass of the loop of lines 20-24.
estimate_ymax_sample ==
    /\ est.call \in {1, 2}
    /\ Len(est.vals) < NumSamples
    /\ est' = [est EXCEPT !.vals =
                 Append(@, SampleValue(est.expr, Linspace(est.a, est.b, Len(est.vals))))]
    /\ UNCHANGED <<webVars, deskVars>>

\* Lines 25-26: the call returns.  After the first call the caller calls
\* again with the bounds exchanged.
estimate_ymax_return ==
    /\ est.call \in {1, 2}
    /\ Len(est.vals) = NumSamples
    /\ est' = [est EXCEPT !.results = Append(@, estimate_result(est.vals)),
                          !.vals = <<>>,
                          !.a = est.b,
                          !.b = est.a,
                          !.call = @ + 1]
    /\ UNCHANGED <<webVars, deskVars>>

NextEst == estimate_ymax_sample \/ estimate_ymax_return

SpecEst == InitEst /\ [][NextEst]_vars

\* ------------------------------------------------- gui_volume: the form

\* on_render without line 141: the worker thread is started and the controls
\* stay enabled.
on_render_no_disable ==
    /\ host = "gui"
    /\ ui = "normal"
    /\ started < MaxRenders
    /\ IF ~parse_limit(typed.a).ok \/ ~parse_limit(typed.b).ok
       THEN /\ dialog' = "Invalid input"
            /\ UNCHANGED <<status, wk, started>>
       ELSE /\ status' = "Starting render"
            /\ started' = started + 1
            /\ wk' = [wk EXCEPT ![started + 1] =
                        [NoWorker EXCEPT !.pc = "begin",
                                         !.expr = typed.expr,
                                         !.a = parse_limit(typed.a).val,
                                         !.b = parse_limit(typed.b).val]]
            /\ UNCHANGED dialog
    /\ UNCHANGED <<host, typed, ui, skip_prompt>>

\* on_render: the limits are parsed; a limit that does not parse is reported
\* and nothing else happens; otherwise the controls are disabled and the
\* worker thread is started.  The button runs its command only while enabled.
on_render ==
    /\ host = "gui"
    /\ ui = "normal"
    /\ started < MaxRenders
    /\ IF ~parse_limit(typed.a).ok \/ ~parse_limit(typed.b).ok
       THEN /\ dialog' = "Invalid input"
            /\ UNCHANGED <<ui, status, wk, started>>
       ELSE /\ ui' = "disabled"
            /\ status' = "Starting render"
            /\ started' = started + 1
            /\ wk' = [wk EXCEPT ![started + 1] =
                        [NoWorker EXCEPT !.pc = "begin",
                                         !.expr = typed.expr,
                                         !.a = parse_limit(typed.a).val,
                                         !.b = parse_limit(typed.b).val]]
            /\ UNCHANGED dialog
    /\ UNCHANGED <<host, typed, skip_prompt>>

\* render_scene, lines 38-43: the status, then the bounds.
render_scene_begin(t) ==
    /\ wk[t].pc = "begin"
    /\ status' = "Rendering"
    /\ LET ab == render_scene_bounds(wk[t].a, wk[t].b)
       IN  wk' = [wk EXCEPT ![t].a = ab[1], ![t].b = ab[2], ![t].pc = "validate"]
    /\ UNCHANGED <<host, typed, ui, dialog, skip_prompt, started>>

\* Lines 45-58 up to scene.render(): the expression is probed at the
\* midpoint; if that passes, prompting is switched off and the scene gets
\* its parameters.
render_scene_validate(t) ==
    /\ wk[t].pc = "validate"
    /\ IF quick_check_expr(wk[t].expr, wk[t].a, wk[t].b) # ""
       THEN /\ wk' = [wk EXCEPT ![t].pc = "except", ![t].exc = "ValueError"]
            /\ UNCHANGED skip_prompt
       ELSE /\ skip_prompt' = "1"
            /\ wk' = [wk EXCEPT ![t].pc = "construct"]
    /\ UNCHANGED <<host, typed, ui, status, dialog, started>>

\* Line 60.
render_scene_done(t) ==
    /\ wk[t].pc = "rendered"
    /\ host = "gui"
    /\ status' = "Done"
    /\ wk' = [wk EXCEPT ![t].pc = "finally"]
    /\ UNCHANGED <<host, typed, ui, dialog, skip_prompt, started>>

\* Lines 61-63.
render_scene_except(t) ==
    /\ wk[t].pc = "except"
    /\ host = "gui"
    /\ dialog' = "Render failed"
    /\ status' = "Failed"
    /\ wk' = [wk EXCEPT ![t].pc = "finally"]
    /\ UNCHANGED <<host, typed, ui, skip_prompt, started>>

\* render_scene without line 65: the thread ends and the controls stay as
\* they are.
render_scene_finally_no_enable(t) ==
    /\ wk[t].pc = "finally"
    /\ wk' = [wk EXCEPT ![t] = NoWorker]
    /\ UNCHANGED <<host, typed, ui, status, dialog, skip_prompt, started>>

\* Lines 64-65: enable_ui(), and the thread ends.
render_scene_finally(t) ==
    /\ wk[t].pc = "finally"
    /\ ui' = "normal"
    /\ wk' = [wk EXCEPT ![t] = NoWorker]
    /\ UNCHANGED <<host, typed, status, dialog, skip_prompt, started>>

\* ------------------------------- rotating_volume_core: the command line

\* _run_programmatically: with --no-prompt the prompts are switched off; the
\* scene is made with its class defaults and rendered.
run_programmatically ==
    /\ host = "cli"
    /\ started = 0
    /\ started' = 1
    /\ \E no_prompt \in BOOLEAN :
          skip_prompt' = IF no_prompt THEN "1" ELSE skip_prompt
    /\ wk' = [wk EXCEPT ![1] = [NoWorker EXCEPT !.pc = "construct",
                                                !.expr = ExprDefault,
                                                !.a = Fin(2),
                                                !.b = Fin(4)]]
    /\ UNCHANGED <<host, typed, ui, status, dialog>>

\* An exception of scene.render() that nothing catches ends the process.
cli_exit(t) ==
    /\ host = "cli"
    /\ wk[t].pc \in {"rendered", "except"}
    /\ wk' = [wk EXCEPT ![t].pc = IF wk[t].pc = "except" THEN "crashed" ELSE "exited"]
    /\ UNCHANGED <<host, typed, ui, status, dialog, skip_prompt, started>>

\* ------------------------------ rotating_volume_core.Rotating3DAxis.construct

\* Lines 70-72: unless prompting is switched off, the parameters are asked for.
construct_params(t) ==
    /\ wk[t].pc = "construct"
    /\ IF skip_prompt # "1"
       THEN LET p == _prompt_params(typed, wk[t].expr, wk[t].a, wk[t].b)
            IN  wk' = [wk EXCEPT ![t].expr = p.expr, ![t].a = p.a, ![t].b = p.b,
                                 ![t].pc = "helper"]
       ELSE wk' = [wk EXCEPT ![t].pc = "helper"]
    /\ UNCHANGED <<host, typed, ui, status, dialog, skip_prompt, started>>

\* w.get(key), which only a dict has.
HasGet(w) == w.t = "dict"

\* isinstance(w.get("yMaxNumeric"), (int, float))
NumericBound(w) == w.yMaxNumeric.t = "num"

\* isinstance(w.get("integralTeX"), str) and len(w["integralTeX"]) > 0
TypesetString(w) == w.integralTeX.t = "str" /\ w.integralTeX.s # ""

\* Lines 74-79: the helper is asked, and y_max comes from it or from
\* estimate_ymax.  Where y_max comes from is kept, not its value.
construct_y_max(t) ==
    /\ wk[t].pc = "helper"
    /\ \E h \in HelperCases :
          LET w == compute_with_wolfram(h)
          IN  IF Truthy(w) /\ ~HasGet(w)
              THEN wk' = [wk EXCEPT ![t].helper = h, ![t].w = w,
                                    ![t].pc = "except", ![t].exc = "AttributeError"]
              ELSE wk' = [wk EXCEPT ![t].helper = h, ![t].w = w, ![t].pc = "plot",
                                    ![t].y_max = IF Truthy(w) /\ NumericBound(w)
                                                 THEN "yMaxNumeric"
                                                 ELSE "estimate_ymax"]
    /\ UNCHANGED <<host, typed, ui, status, dialog, skip_prompt, started>>

\* The points at which lines 91-131 certainly evaluate f: the ends of the
\* plotted range and the slice position p.
PlotPoints(a, b) == {a, b, Midpoint(a, b)}

\* Lines 81-138: the axes, the graph, the surface, the slice.  f raises what
\* safe_eval_expr raises; the rendering library may fail on its own account.
construct_plot(t) ==
    /\ wk[t].pc = "plot"
    /\ IF \E x \in PlotPoints(wk[t].a, wk[t].b) : ~safe_eval_expr(wk[t].expr, x).ok
       THEN LET x == CHOOSE x \in PlotPoints(wk[t].a, wk[t].b) :
                        ~safe_eval_expr(wk[t].expr, x).ok
            IN  wk' = [wk EXCEPT ![t].pc = "except",
                                 ![t].exc = safe_eval_expr(wk[t].expr, x).exc]
       ELSE \E library_ok \in BOOLEAN :
               IF library_ok THEN wk' = [wk EXCEPT ![t].pc = "label"]
               ELSE wk' = [wk EXCEPT ![t].pc = "except", ![t].exc = "LibraryError"]
    /\ UNCHANGED <<host, typed, ui, status, dialog, skip_prompt, started>>

\* Lines 140-146: the integral label, the helper's or the local one.
construct_integral(t) ==
    /\ wk[t].pc = "label"
    /\ IF Truthy(wk[t].w) /\ ~HasGet(wk[t].w)
       THEN wk' = [wk EXCEPT ![t].pc = "except", ![t].exc = "AttributeError"]
       ELSE wk' = [wk EXCEPT ![t].pc = "rendered",
                             ![t].integral = IF Truthy(wk[t].w) /\ TypesetString(wk[t].w)
                                             THEN "integralTeX" ELSE "local"]
    /\ UNCHANGED <<host, typed, ui, status, dialog, skip_prompt, started>>

InitDesk ==
    /\ WebIdle
    /\ est = NoEst
    /\ InitDeskWith({"gui", "cli"}, Typed)

NextDesk ==
    /\ UNCHANGED <<webVars, estVars>>
    /\ \/ on_render
       \/ run_programmatically
       \/ \E t \in Workers :
             \/ render_scene_begin(t)
             \/ render_scene_validate(t)
             \/ construct_params(t)
             \/ construct_y_max(t)
             \/ construct_plot(t)
             \/ construct_integral(t)
             \/ render_scene_done(t)
             \/ render_scene_except(t)
             \/ render_scene_finally(t)
             \/ cli_exit(t)

\* The desktop form, or the scene run from the command line.
SpecDesk == InitDesk /\ [][NextDesk]_vars

\* One step of worker thread t of the desktop form.
WorkerStep(t) ==
    /\ UNCHANGED <<webVars, estVars>>
    /\ host = "gui"
    /\ \/ render_scene_begin(t)
       \/ render_scene_validate(t)
       \/ construct_params(t)
       \/ construct_y_max(t)
       \/ construct_plot(t)
       \/ construct_integral(t)
       \/ render_scene_done(t)
       \/ render_scene_except(t)
       \/ render_scene_finally(t)

\* Either host on its own: the web form with the desktop idle, or the
\* desktop form (or command line) with the web form idle.
InitHost == Init \/ InitDesk

NextHost == Next \/ NextDesk

\* A worker thread that can take its next step takes it: the interpreter
\* schedules every runnable thread, the helper and the rendering library
\* return or raise, and the user dismisses the modal "Render failed" box.
SpecHost ==
    /\ InitHost
    /\ [][NextHost]_vars
    /\ \A t \in Workers : WF_vars(WorkerStep(t))

\* ------------------------------------------------------------------ claims

InRun(s) == pc[s] \in {"clean", "spawn", "wait"}

Returned(s) == pc[s] = "done" /\ outcome[s].kind = "returned"

\* C1: run_manim deletes the file at out_path before it invokes the
\* renderer, and a file at out_path when a job ends was rendered by that
\* job's own child, never by an earlier job's.
C1_StaleNeverReturned ==
    \A s \in open :
        /\ pc[s] \in {"spawn", "wait"} => target = 0
        /\ pc[s] = "done" => outcome[s].artifact \in {0, job[s].id}

\* C2: when run_manim returns its path as a success, a file exists at that
\* path (a renderer that exits 0 and leaves no file makes the job fail).
C2_ReturnedPathExists ==
    \A s \in open : Returned(s) => outcome[s].artifact # 0

\* C3: after a non-zero exit run_manim raises, the exception carries the
\* captured stdout and stderr unchanged, no artifact is searched for or
\* moved, and out_path is absent.
C3_NonZeroExitFails ==
    \A s \in open :
        (pc[s] = "done" /\ res[s].returncode # 0) =>
            /\ outcome[s].kind = "RuntimeError"
            /\ Len(outcome[s].msg) = 4
            /\ outcome[s].msg[2] = res[s].stdout
            /\ outcome[s].msg[4] = res[s].stderr
            /\ ~found[s].searched
            /\ outcome[s].artifact = 0
            /\ target = 0

\* C3's case: a stale file was at out_path, the child wrote a movie and then
\* exited non-zero with text on stderr.
C3_Witness ==
    \E s \in open :
        /\ pc[s] = "done" /\ res[s].returncode # 0
        /\ res[s].stderr = "Traceback" /\ res[s].stdout = "INFO"
        /\ existed[s] /\ proc[s].wrote

\* C4: every job that waits for a running renderer child eventually ends.
C4_EveryJobReturns ==
    \A s \in Sessions :
        (pc[s] = "wait" /\ proc[s].st = "running") ~> (pc[s] = "done")

\* C5: jobs to the same out_path run one at a time, and no job ends with
\* another job's artifact.
C5_OneJobPerPath ==
    /\ \A s, t \in open : (s # t /\ InRun(s)) => ~InRun(t)
    /\ \A s \in open : pc[s] = "done" => outcome[s].artifact \in {0, job[s].id}

\* C6: a job whose expression the allow-list does not accept never has a
\* renderer child spawned, and ends with a ParseError.
C6_ValidationBeforeSpawn ==
    \A s \in open :
        (job[s].id # 0 /\ ~Acceptable(job[s].func2d)) =>
            /\ proc[s].st = "none"
            /\ pc[s] = "done" => outcome[s].kind = "ParseError"

\* The bounds of worker t have passed lines 40-43 (or 51-52).
BoundsSet(t) == wk[t].pc \in {"validate", "helper", "plot", "label", "rendered"}

\* C7: no outcome of the helper makes construct fail; without a usable
\* numeric bound y_max is estimate_ymax's, without a usable typeset string
\* the label is the local one.
C7_HelperBestEffort ==
    \A t \in Workers :
        /\ wk[t].exc # "AttributeError"
        /\ wk[t].y_max = "yMaxNumeric" => NumericBound(wk[t].w)
        /\ wk[t].integral = "integralTeX" => TypesetString(wk[t].w)

\* C8: the bounds that reach validation and the scene satisfy a < b.
C8_BoundsStrictlyOrdered ==
    \A t \in Workers : BoundsSet(t) => FLt(wk[t].a, wk[t].b)

RangeInOrder(r, default_tuple) ==
    r.ok /\ r.min < r.max /\ r.step = default_tuple[3]

\* C9: the ranges _read_range returns in the child have min < max, with the
\* default step.
C9_RangesInOrder ==
    \A s \in open :
        proc[s].st \in {"running", "exited", "hung"} =>
            /\ RangeInOrder(proc[s].XR, DefaultXR)
            /\ RangeInOrder(proc[s].YR, DefaultYR)
            /\ RangeInOrder(proc[s].ZR, DefaultZR)

\* C10: estimate_ymax answers the same for (expr, a, b) and (expr, b, a).
C10_EstimateSymmetric ==
    Len(est.results) = 2 => est.results[1] = est.results[2]

\* The list vals of estimate_ymax(expr, a, b) when its loop has ended.
Samples(expr, a, b) ==
    [i \in 1..NumSamples |-> SampleValue(expr, Linspace(a, b, i - 1))]

\* The values of the list that are numbers.
Defined(vals) == {vals[i] : i \in 1..Len(vals)} \ {NaN}

\* The largest of them, 1.0 when there is none.
DefinedMax(vals) ==
    IF Defined(vals) = {} THEN One
    ELSE CHOOSE v \in Defined(vals) : \A u \in Defined(vals) : ~FGt(u, v)

\* C11: estimate_ymax returns 1.15 times max(1.0, M), M the largest absolute
\* value over the samples whose value is a number (a sample that raises
\* counts 0.0 and one that is not-a-number is left out); so the result is
\* at least 1.15.
C11_EstimateIsScaledMax ==
    \A k \in 1..Len(est.results) :
        /\ est.results[k] =
              Headroom(PyMax2(One, DefinedMax(Samples(est.expr, est.a, est.b))))
        /\ ~FLt(est.results[k], Headroom(One))

\* C12: the function the volume scene plots, f of line 91, does not raise to
\* the plotting code: for an expression the allow-list accepts, no worker's
\* construct ends with an arithmetic exception of a single point.
C12_PlottedFunctionNeverRaises ==
    \A t \in Workers :
        Acceptable(wk[t].expr) => wk[t].exc # "ZeroDivisionError"

\* C13: a job the desktop form has started ends with the status Done or
\* Failed and with the controls enabled again, whatever the job did; and
\* in the web form a run_manim that raised is shown as an error message.
C13_HostSurvivesJobs ==
    /\ \A t \in Workers :
          (host = "gui" /\ wk[t].pc = "begin")
              ~> (wk[t].pc = "none" /\ status \in {"Done", "Failed"} /\ ui = "normal")
    /\ [](\A s \in open :
            (pc[s] = "done" /\ outcome[s].kind # "returned") => outcome[s].shown = "error")

\* C13's case: a job of the desktop form has failed in the scene, and the
\* form is ready for the next one.
C13_Witness ==
    /\ host = "gui"
    /\ started >= 1
    /\ \A t \in Workers : wk[t].pc = "none"
    /\ dialog = "Render failed"
    /\ status = "Failed"
    /\ ui = "normal"

\* The worker threads that have been started and have not ended.
InFlight == {t \in Workers : wk[t].pc # "none"}

\* Both limits typed into the form parse.
LimitsParse == parse_limit(typed.a).ok /\ parse_limit(typed.b).ok

\* C14: in the desktop form at most one worker thread is in flight, and the
\* controls are disabled while it is; a thread starts only with limits that
\* parse and with the controls disabled by then; only a worker's finally
\* block enables them again; with a limit that does not parse no thread
\* starts and the controls stay as they are.
C14_OneWorkerInFlight ==
    /\ [](host = "gui" =>
            /\ Cardinality(InFlight) <= 1
            /\ InFlight # {} => ui = "disabled")
    /\ [][host = "gui" =>
            /\ started' # started => (LimitsParse /\ ui' = "disabled")
            /\ (ui = "disabled" /\ ui' = "normal") =>
                  \E t \in Workers : wk[t].pc = "finally" /\ wk'[t].pc = "none"
            /\ ~LimitsParse => (started' = started /\ ui' = ui)]_vars

\* C14's case: the first worker has ended, a second click has started the
\* second, which is in the scene.
C14_Witness ==
    /\ host = "gui"
    /\ started = 2
    /\ wk[1].pc = "none"
    /\ wk[2].pc = "plot"
    /\ ui = "disabled"

====
